---- MODULE Spec2Model ----
(***************************************************************************)
(* go-worktree: WorktreeManager.CreateWorktree and the components it       *)
(* drives (GitRepo, FileCopier, authentication), as a state machine.       *)
(*                                                                         *)
(* Strings are sequences: file names, patterns and git-config output are   *)
(* sequences of one-character strings; error messages and remote URLs are  *)
(* sequences of words.  Outcomes of the environment (subprocess exit       *)
(* status, file system answers, the remote's answer to a pull) are inputs  *)
(* drawn with \E at the step that consumes them.                           *)
(***************************************************************************)
EXTENDS Integers, Sequences, FiniteSets, TLC

\* ------------------------------------------------------------------------
\* Bounds
\* ------------------------------------------------------------------------

\* Number of distinct commit hashes a reference can point at.
NumHashes == 2

\* ------------------------------------------------------------------------
\* String helpers (package strings)
\* ------------------------------------------------------------------------

\* strings.Contains(s, sub)
Contains(s, sub) ==
    \E i \in 1..(Len(s) - Len(sub) + 1) : SubSeq(s, i, i + Len(sub) - 1) = sub

\* strings.HasPrefix(s, p)
HasPrefix(s, p) ==
    /\ Len(p) <= Len(s)
    /\ SubSeq(s, 1, Len(p)) = p

\* strings.ReplaceAll(s, old, new) for one-character old and new
ReplaceAll(s, old, new) ==
    [i \in 1..Len(s) |-> IF s[i] = old THEN new ELSE s[i]]

\* fmt.Errorf("... %w", err): the wrapped error's text follows the prefix
Wrap(prefix, err) == prefix \o err

\* The nil error.
Nil == <<>>

\* ------------------------------------------------------------------------
\* Errors of package main and of go-git
\* ------------------------------------------------------------------------

ErrNotInGitRepo == <<"not", "in", "a", "git", "repository">>
ErrWorktreeCreationFailed == <<"failed", "to", "create", "git", "worktree">>
NoErrAlreadyUpToDate == <<"already", "up-to-date">>

\* ------------------------------------------------------------------------
\* Authentication provider
\* ------------------------------------------------------------------------

\* The nil transport.AuthMethod: the transport applies its own defaults.
NoAuth == <<>>

\* Remote URLs of origin, the scheme prefix as the first word.
RemoteURLs ==
    { <<"git@", "github.com:o/r.git">>,
      <<"ssh://", "git@host/o/r.git">>,
      <<"https://github.com", "/o/r.git">>,
      <<"https://gitlab.com", "/o/r.git">>,
      <<"/srv/git/r.git">> }

\* What repository.Remote("origin") answers: no such remote, a remote with
\* no URL, or a remote with one URL.
RemoteConfigs ==
    { [found |-> FALSE, urls |-> <<>>], [found |-> TRUE, urls |-> <<>>] }
    \cup { [found |-> TRUE, urls |-> <<u>>] : u \in RemoteURLs }

keyNames == <<"id_rsa", "id_ed25519", "id_ecdsa", "id_dsa">>

NoKeys == [i \in 1..Len(keyNames) |-> "absent"]

\* SSH environment: whether the agent answers, whether the home directory is
\* known, and for each conventional key file whether it is absent, present
\* but not loadable, or loadable.  What getSSHAuth does not get to consult
\* (the home directory once the agent answered, the key files without a
\* home directory) is held fixed.
SSHEnvs ==
    { [agent |-> TRUE, home |-> TRUE, keys |-> NoKeys],
      [agent |-> FALSE, home |-> FALSE, keys |-> NoKeys] }
    \cup [agent : {FALSE}, home : {TRUE},
          keys : [1..Len(keyNames) -> {"absent", "bad", "ok"}]]

\* Output of `git credential fill`: lines, each a key= word and its value.
CredOutputs ==
    { <<>>,
      << <<"username=", "u">> >>,
      << <<"username=", "u">>, <<"password=", "secret">> >> }

\* HTTPS environment: whether `gh auth token` and `git credential fill`
\* exit with success, and what the latter prints.
HTTPSEnvs ==
    { [gh |-> TRUE, credRun |-> FALSE, credOut |-> <<>>],
      [gh |-> FALSE, credRun |-> FALSE, credOut |-> <<>>] }
    \cup [gh : {FALSE}, credRun : {TRUE}, credOut : CredOutputs]

RECURSIVE firstLoadableKey(_, _)
firstLoadableKey(keys, i) ==
    IF i > Len(keyNames) THEN 0
    ELSE IF keys[i] = "ok" THEN i
    ELSE firstLoadableKey(keys, i + 1)

getSSHAuth(env) ==
    IF env.agent THEN [auth |-> <<"ssh-agent">>, err |-> Nil]
    ELSE IF ~env.home
    THEN [auth |-> NoAuth,
          err |-> Wrap(<<"failed", "to", "get", "home", "directory:">>, <<"$HOME", "is", "not", "defined">>)]
    ELSE LET k == firstLoadableKey(env.keys, 1) IN
         IF k # 0 THEN [auth |-> <<"ssh-key", keyNames[k]>>, err |-> Nil]
         ELSE [auth |-> NoAuth,
               err |-> <<"no", "SSH", "keys", "found", "or", "SSH", "agent", "not", "available">>]

getGitHubToken(env) ==
    IF env.gh THEN [token |-> <<"gh-token">>, err |-> Nil]
    ELSE [token |-> <<>>, err |-> <<"exit", "status", "1">>]

RECURSIVE passwordLine(_, _)
passwordLine(lines, i) ==
    IF i > Len(lines) THEN 0
    ELSE IF HasPrefix(lines[i], <<"password=">>) THEN i
    ELSE passwordLine(lines, i + 1)

getGitCredentials(url, env) ==
    IF ~env.credRun THEN [token |-> <<>>, err |-> <<"exit", "status", "128">>]
    ELSE LET i == passwordLine(env.credOut, 1) IN
         IF i # 0 THEN [token |-> Tail(env.credOut[i]), err |-> Nil]
         ELSE [token |-> <<>>,
               err |-> <<"no", "password", "found", "in", "git", "credentials">>]

getHTTPSAuth(remoteURL, env) ==
    IF getGitHubToken(env).err = Nil
    THEN [auth |-> <<"basic", "token">> \o getGitHubToken(env).token, err |-> Nil]
    ELSE IF getGitCredentials(remoteURL, env).err = Nil
    THEN [auth |-> <<"basic", "token">> \o getGitCredentials(remoteURL, env).token,
          err |-> Nil]
    ELSE [auth |-> NoAuth,
          err |-> <<"no", "HTTPS", "authentication", "method", "found">>]

getAuth(remote, sshEnv, httpsEnv) ==
    IF ~remote.found
    THEN [auth |-> NoAuth,
          err |-> Wrap(<<"failed", "to", "get", "origin", "remote:">>, <<"remote", "not", "found">>)]
    ELSE IF Len(remote.urls) = 0
    THEN [auth |-> NoAuth,
          err |-> <<"no", "URLs", "configured", "for", "origin", "remote">>]
    ELSE LET remoteURL == remote.urls[1] IN
         IF HasPrefix(remoteURL, <<"git@">>) \/ HasPrefix(remoteURL, <<"ssh://">>)
         THEN getSSHAuth(sshEnv)
         ELSE IF HasPrefix(remoteURL, <<"https://github.com">>)
         THEN getHTTPSAuth(remoteURL, httpsEnv)
         ELSE [auth |-> NoAuth, err |-> Nil]

\* ------------------------------------------------------------------------
\* GitRepo.pull
\* ------------------------------------------------------------------------

\* What Worktree.PullContext can return: nil, already-up-to-date, or an
\* error with one of these messages.
PullResults ==
    { Nil,
      NoErrAlreadyUpToDate,
      <<"branch", "has", "no", "upstream">>,
      <<"no", "tracking", "information">>,
      <<"authentication", "required">>,
      <<"Repository", "not", "found">>,
      <<"connection", "refused">> }

\* pull: the error it returns, whether PullContext was called, and the
\* credential PullContext was given.
pull(wtOk, remote, sshEnv, httpsEnv, raw) ==
    IF ~wtOk
    THEN [err |-> Wrap(<<"failed", "to", "get", "worktree:">>, <<"worktree", "not", "available">>),
          attempted |-> FALSE, auth |-> NoAuth]
    ELSE LET a == getAuth(remote, sshEnv, httpsEnv) IN
         IF a.err # Nil
         THEN [err |-> Wrap(<<"failed", "to", "get", "authentication:">>, a.err),
               attempted |-> FALSE, auth |-> NoAuth]
         ELSE IF raw # Nil /\ raw # NoErrAlreadyUpToDate
         THEN IF Contains(raw, <<"no", "upstream">>)
                  \/ Contains(raw, <<"no", "tracking", "information">>)
              THEN [err |-> <<"no", "upstream", "configured", "for", "current", "branch">>,
                    attempted |-> TRUE, auth |-> a.auth]
              ELSE IF Contains(raw, <<"authentication", "required">>)
                      \/ Contains(raw, <<"Repository", "not", "found">>)
              THEN [err |-> <<"authentication", "failed", "or", "repository", "not", "accessible">>,
                    attempted |-> TRUE, auth |-> a.auth]
              ELSE [err |-> Wrap(<<"failed", "to", "pull:">>, raw),
                    attempted |-> TRUE, auth |-> a.auth]
         ELSE [err |-> Nil, attempted |-> TRUE, auth |-> a.auth]

\* ------------------------------------------------------------------------
\* Paths and file names, as sequences of characters
\* ------------------------------------------------------------------------

Slash == <<"/">>
NodeModules == <<"n", "o", "d", "e", "_", "m", "o", "d", "u", "l", "e", "s">>

\* The largest element of a finite set of naturals, 0 if it is empty.
Max(S) == IF S = {} THEN 0 ELSE CHOOSE x \in S : \A y \in S : y <= x

\* The position of the last separator of p, 0 if it has none.
lastSlash(p) == Max({i \in 1..Len(p) : p[i] = "/"})

\* os.FileInfo.Name(): the last element of the path
BaseName(p) == SubSeq(p, lastSlash(p) + 1, Len(p))

\* filepath.Dir(p): everything before the last separator, "." if none
Dir(p) ==
    IF lastSlash(p) = 0 THEN <<".">>
    ELSE SubSeq(p, 1, lastSlash(p) - 1)

\* ------------------------------------------------------------------------
\* FileCopier.copyWithCOW
\* ------------------------------------------------------------------------

copyStrategies == << <<"-Rc">>, <<"-R", "--reflink">>, <<"-R">> >>

\* Environment of one copyWithCOW call: whether MkdirAll succeeds and, for
\* each strategy, whether cp exits with success.
CopyEnvs == [mkdir : BOOLEAN, cp : [1..Len(copyStrategies) -> BOOLEAN]]

\* tryStrategies giving up after the first strategy.
tryStrategiesFirstOnly(src, dest, env, i, ran, exits) ==
    IF env.cp[1]
    THEN [err |-> Nil, mkdirErr |-> FALSE,
          ran |-> <<copyStrategies[1]>>, exits |-> <<TRUE>>]
    ELSE [err |-> <<"failed", "to", "copy">> \o src \o <<"to">> \o dest,
          mkdirErr |-> FALSE, ran |-> <<copyStrategies[1]>>, exits |-> <<FALSE>>]

\* The strategies from the i-th on: the cp commands run (their flags, in the
\* order run), the exit status of each (TRUE for success) and the error
\* returned.
RECURSIVE tryStrategies(_, _, _, _, _, _)
tryStrategies(src, dest, env, i, ran, exits) ==
    IF i > Len(copyStrategies)
    THEN [err |-> <<"failed", "to", "copy">> \o src \o <<"to">> \o dest,
          mkdirErr |-> FALSE, ran |-> ran, exits |-> exits]
    ELSE IF env.cp[i]
    THEN [err |-> Nil, mkdirErr |-> FALSE,
          ran |-> Append(ran, copyStrategies[i]), exits |-> Append(exits, TRUE)]
    ELSE tryStrategies(src, dest, env, i + 1,
                       Append(ran, copyStrategies[i]), Append(exits, FALSE))

copyWithCOW(src, dest, env) ==
    IF ~env.mkdir
    THEN [err |-> <<"mkdir">> \o Dir(dest) \o <<"permission", "denied">>,
          mkdirErr |-> TRUE, ran |-> <<>>, exits |-> <<>>]
    ELSE tryStrategies(src, dest, env, 1, <<>>, <<>>)

\* ------------------------------------------------------------------------
\* Untracked-file pattern (regular expression over file names)
\* ------------------------------------------------------------------------

defaultPatterns ==
    <<"\\", ".", "e", "n", "v", "|", "\\", ".", "e", "n", "v", "r", "c", "|", "\\", ".", "e", "n", "v", ".", "l", "o", "c", "a", "l", "|", "\\", ".", "m", "i", "s", "e", ".", "t", "o", "m", "l", "|", "\\", ".", "t", "o", "o", "l", "-", "v", "e", "r", "s", "i", "o", "n", "s", "|", "m", "i", "s", "e", ".", "t", "o", "m", "l">>

IsSpace(c) == c \in {" ", "\n", "\t"}

\* strings.TrimSpace: from the first to the last character that is no space
TrimSpace(s) ==
    LET keep == {i \in 1..Len(s) : ~IsSpace(s[i])} IN
    IF keep = {} THEN <<>>
    ELSE SubSeq(s, CHOOSE x \in keep : \A y \in keep : x <= y, Max(keep))

\* The k-th smallest element of a set of naturals.
Nth(S, k) == CHOOSE x \in S : Cardinality({y \in S : y < x}) = k - 1

\* The pieces of s between the positions in cuts (in increasing order):
\* always one piece more than there are cuts.
Pieces(s, cuts) ==
    [k \in 1..(Cardinality(cuts) + 1) |->
        SubSeq(s,
               (IF k = 1 THEN 0 ELSE Nth(cuts, k - 1)) + 1,
               (IF k = Cardinality(cuts) + 1 THEN Len(s) + 1 ELSE Nth(cuts, k)) - 1)]

\* strings.Split(s, sep) for a one-character sep: always at least one field
Split(s, sep) == Pieces(s, {i \in 1..Len(s) : s[i] = sep})

\* strings.Join(parts, sep)
RECURSIVE JoinAll(_, _)
JoinAll(parts, sep) ==
    IF Len(parts) = 0 THEN <<>>
    ELSE IF Len(parts) = 1 THEN parts[1]
    ELSE parts[1] \o sep \o JoinAll(Tail(parts), sep)

\* The elements joined with a separator between them: start(k) characters
\* come before the k-th element.
JoinElements(elems) ==
    LET n == Len(elems)
        start(k) == Cardinality(UNION {{h} \X (0..Len(elems[h])) : h \in 1..(k - 1)})
        total == start(n + 1) - 1
        owner(x) == CHOOSE k \in 1..n : start(k) < x /\ x <= start(k + 1) IN
    [x \in 1..total |->
        IF x = start(owner(x) + 1) THEN "/" ELSE elems[owner(x)][x - start(owner(x))]]

\* filepath.Clean(p): empty elements and "." are dropped; ".." removes the
\* nearest element before it that is not ".." and not yet removed, and is
\* dropped at the root of a rooted path; the empty result is ".".
Clean(p) ==
    IF p = <<>> THEN <<".">>
    ELSE LET rooted == p[1] = "/"
             elems == SelectSeq(Split(p, "/"), LAMBDA e : e # <<>> /\ e # <<".">>)
             n == Len(elems)
             IsUp(k) == elems[k] = <<".", ".">>
             Weight(i, j) == Cardinality({k \in i..j : ~IsUp(k)})
                                 - Cardinality({k \in i..j : IsUp(k)})
             Kept(i) == IF IsUp(i)
                        THEN ~rooted /\ \A h \in 1..i : Weight(h, i) < 0
                        ELSE \A j \in i..n : Weight(i, j) > 0
             keep == {i \in 1..n : Kept(i)}
             out == [k \in 1..Cardinality(keep) |-> elems[Nth(keep, k)]] IN
         IF keep = {} THEN (IF rooted THEN Slash ELSE <<".">>)
         ELSE (IF rooted THEN Slash ELSE <<>>) \o JoinElements(out)

\* filepath.Join(a, b): empty elements are ignored, the rest joined with a
\* separator and cleaned
Join(a, b) ==
    IF a = <<>> /\ b = <<>> THEN <<>>
    ELSE IF a = <<>> THEN Clean(b)
    ELSE IF b = <<>> THEN Clean(a)
    ELSE Clean(a \o Slash \o b)

\* fmt.Sprintf("^(%s)$", body)
Anchored(body) == <<"^", "(">> \o body \o <<")", "$">>

\* cfgErr: `git config --get-all worktree.untrackedfiles` exited with an
\* error (key not set, unreadable configuration); output: what it printed.
getUntrackedFilesPattern(cfgErr, output) ==
    IF cfgErr THEN Anchored(defaultPatterns)
    ELSE LET customPatterns == TrimSpace(output) IN
         IF customPatterns # <<>>
         THEN Anchored(JoinAll(Split(customPatterns, "\n"), <<"|">>))
         ELSE Anchored(defaultPatterns)

\* The regular expressions the patterns use: literals, \c escapes, "." for
\* any character, "|" between alternatives, inside ^( )$.  A "[" opens a
\* character class; none of the patterns here closes one, so it is a syntax
\* error, as is a trailing backslash.
\* The number of backslashes that end right before position i.
BackslashesBefore(body, i) ==
    (i - 1) - Max({t \in 1..(i - 1) : body[t] # "\\"})

\* Position i is taken literally: an odd number of backslashes precedes it.
Escaped(body, i) == BackslashesBefore(body, i) % 2 = 1

\* The atom the character at position i stands for; "esc" for a backslash
\* that escapes the next character.
AtomAt(body, i) ==
    IF Escaped(body, i) THEN [kind |-> "lit", c |-> body[i]]
    ELSE IF body[i] = "\\"
    THEN IF i = Len(body) THEN [kind |-> "bad", c |-> body[i]]
         ELSE [kind |-> "esc", c |-> body[i]]
    ELSE IF body[i] = "[" THEN [kind |-> "bad", c |-> body[i]]
    ELSE IF body[i] = "." THEN [kind |-> "any", c |-> body[i]]
    ELSE IF body[i] = "|" THEN [kind |-> "alt", c |-> body[i]]
    ELSE [kind |-> "lit", c |-> body[i]]

Atoms(body) ==
    SelectSeq([i \in 1..Len(body) |-> AtomAt(body, i)], LAMBDA a : a.kind # "esc")

PatternBody(pattern) == SubSeq(pattern, 3, Len(pattern) - 2)

\* regexp.Compile(pattern) returns no error
Compiles(pattern) ==
    LET atoms == Atoms(PatternBody(pattern)) IN
    \A i \in 1..Len(atoms) : atoms[i].kind # "bad"

AltMatches(alt, name) ==
    /\ Len(alt) = Len(name)
    /\ \A i \in 1..Len(alt) : alt[i].kind = "any" \/ alt[i].c = name[i]

\* regexp.MatchString(name) for a pattern that compiles: some alternative
\* between two "|" matches the whole name
MatchString(pattern, name) ==
    LET atoms == Atoms(PatternBody(pattern))
        alts == Pieces(atoms, {i \in 1..Len(atoms) : atoms[i].kind = "alt"}) IN
    \E k \in 1..Len(alts) : AltMatches(alts[k], name)

\* ------------------------------------------------------------------------
\* File discovery
\* ------------------------------------------------------------------------

\* The files below the repository root, in the order filepath.Walk visits
\* them.
RepoFiles ==
    << <<".", "e", "n", "v">>,
       <<"n", "o", "d", "e", "_", "m", "o", "d", "u", "l", "e", "s", "/", ".", "e", "n", "v">>,
       <<"x", "e", "n", "v">> >>

\* Whether the file at path is one the pattern selects: not below
\* node_modules, and its name matches.
Selected(pattern, path) ==
    /\ ~Contains(path, NodeModules)
    /\ MatchString(pattern, BaseName(path))

RECURSIVE Lines(_)
Lines(paths) ==
    IF Len(paths) = 0 THEN <<>> ELSE Head(paths) \o <<"\n">> \o Lines(Tail(paths))

\* What `fd -u pattern -E node_modules` prints: one selected path per line.
fdOutput(pattern) ==
    Lines(SelectSeq(RepoFiles, LAMBDA path : Selected(pattern, path)))

\* toolOk: fd itself ran without an I/O error.
findFilesWithFd(pattern, toolOk) ==
    IF ~toolOk \/ ~Compiles(pattern)
    THEN [files |-> <<>>, err |-> <<"exit", "status", "1">>]
    ELSE LET files == Split(TrimSpace(fdOutput(pattern)), "\n") IN
         IF Len(files) = 1 /\ files[1] = <<>>
         THEN [files |-> <<>>, err |-> Nil]
         ELSE [files |-> files, err |-> Nil]

\* toolOk: the walk met no unreadable entry.  The files found before an
\* error are returned with it; copyUntrackedFiles drops them.
findFilesWithWalk(pattern, toolOk) ==
    IF ~toolOk
    THEN [files |-> <<>>, err |-> <<"permission", "denied">>]
    ELSE [files |-> SelectSeq(RepoFiles, LAMBDA path : Selected(pattern, path)),
          err |-> Nil]

findFiles(pattern, hasFd, toolOk) ==
    IF hasFd THEN findFilesWithFd(pattern, toolOk)
    ELSE IF ~Compiles(pattern)
    THEN [files |-> <<>>, err |-> <<"error", "parsing", "regexp">>]
    ELSE findFilesWithWalk(pattern, toolOk)

\* What `git config --get-all worktree.untrackedfiles` can answer: an error
\* exit (key not set), or a success exit with one value per line.
ConfigAnswers ==
    { [err |-> TRUE, out |-> <<>>],
      [err |-> FALSE, out |-> <<"\n">>],
      [err |-> FALSE, out |-> <<".", "e", "n", "v", "\n">>],
      [err |-> FALSE, out |-> <<"x", "e", "n", "v", "\n", "n", "o", "n", "e", "\n">>],
      [err |-> FALSE, out |-> <<"[", "\n">>] }

\* ------------------------------------------------------------------------
\* Branch references and GitRepo.createWorktree
\* ------------------------------------------------------------------------

NoHash == 0
Hashes == 1..NumHashes

\* Branch names a user may ask for.
BranchNames == { <<"m">>, <<"f", "/", "x", "/", "y">> }

\* The branch HEAD points at: it resolves to the commit HEAD resolves to.
CurrentBranch == <<"m">>

branchExistsLocally(local, b) == local[b] # NoHash

branchExistsOnRemote(remote, b) == remote[b] # NoHash

\* Environment of one createWorktree call: whether re-reading the
\* reference, writing a reference, getting the main worktree and
\* `git worktree add` succeed.
CreateEnvs == [refRead : BOOLEAN, setRef : BOOLEAN, wt : BOOLEAN, add : BOOLEAN]

\* resolveBranch with the remote branch looked up before the local one.
resolveBranchRemoteFirst(local, remote, hd, b, env) ==
    IF branchExistsOnRemote(remote, b)
    THEN IF ~env.refRead
         THEN [refs |-> local,
               err |-> <<"failed", "to", "get", "remote", "branch", "reference">>]
         ELSE IF ~env.setRef
         THEN [refs |-> local, err |-> <<"failed", "to", "create", "local", "branch">>]
         ELSE [refs |-> [local EXCEPT ![b] = remote[b]], err |-> Nil]
    ELSE IF branchExistsLocally(local, b)
    THEN IF ~env.refRead
         THEN [refs |-> local,
               err |-> <<"failed", "to", "get", "local", "branch", "reference">>]
         ELSE [refs |-> local, err |-> Nil]
    ELSE IF hd = NoHash
    THEN [refs |-> local, err |-> <<"failed", "to", "get", "HEAD">>]
    ELSE IF ~env.setRef
    THEN [refs |-> local, err |-> <<"failed", "to", "create", "new", "branch">>]
    ELSE [refs |-> [local EXCEPT ![b] = hd], err |-> Nil]

\* Lines 85-117: the local references after resolving the branch, and the
\* error that ends createWorktree early.
resolveBranch(local, remote, hd, b, env) ==
    IF branchExistsLocally(local, b)
    THEN IF ~env.refRead
         THEN [refs |-> local,
               err |-> <<"failed", "to", "get", "local", "branch", "reference">>]
         ELSE [refs |-> local, err |-> Nil]
    ELSE IF branchExistsOnRemote(remote, b)
    THEN IF ~env.refRead
         THEN [refs |-> local,
               err |-> <<"failed", "to", "get", "remote", "branch", "reference">>]
         ELSE IF ~env.setRef
         THEN [refs |-> local, err |-> <<"failed", "to", "create", "local", "branch">>]
         ELSE [refs |-> [local EXCEPT ![b] = remote[b]], err |-> Nil]
    ELSE IF hd = NoHash
    THEN [refs |-> local, err |-> <<"failed", "to", "get", "HEAD">>]
    ELSE IF ~env.setRef
    THEN [refs |-> local, err |-> <<"failed", "to", "create", "new", "branch">>]
    ELSE [refs |-> [local EXCEPT ![b] = hd], err |-> Nil]

\* createWorktree with the exit status of `git worktree add` dropped.
createWorktreeUnchecked(local, remote, hd, b, env) ==
    LET r == resolveBranch(local, remote, hd, b, env) IN
    IF r.err # Nil
    THEN [refs |-> r.refs, err |-> r.err, ran |-> FALSE, added |-> FALSE]
    ELSE IF ~env.wt
    THEN [refs |-> r.refs, err |-> <<"failed", "to", "get", "main", "worktree">>,
          ran |-> FALSE, added |-> FALSE]
    ELSE [refs |-> r.refs, err |-> Nil, ran |-> TRUE, added |-> env.add]

\* createWorktree: the local references it leaves, its error, and whether
\* `git worktree add` was run and whether it made the worktree.
createWorktree(local, remote, hd, b, env) ==
    LET r == resolveBranch(local, remote, hd, b, env) IN
    IF r.err # Nil
    THEN [refs |-> r.refs, err |-> r.err, ran |-> FALSE, added |-> FALSE]
    ELSE IF ~env.wt
    THEN [refs |-> r.refs, err |-> <<"failed", "to", "get", "main", "worktree">>,
          ran |-> FALSE, added |-> FALSE]
    ELSE IF ~env.add
    THEN [refs |-> r.refs, err |-> <<"exit", "status", "128">>,
          ran |-> TRUE, added |-> FALSE]
    ELSE [refs |-> r.refs, err |-> Nil, ran |-> TRUE, added |-> TRUE]

\* ------------------------------------------------------------------------
\* WorktreeManager.initGitRepo
\* ------------------------------------------------------------------------

\* Where the process is: outside any repository, in a subdirectory of the
\* repository, at its root, or in the new worktree.
Places == {"outside", "subdir", "root", "worktree"}

InitEnvs == [getwd : BOOLEAN, wt : BOOLEAN, chdir : BOOLEAN]

\* initGitRepo: its error and the working directory it leaves.
initGitRepo(dir, env) ==
    IF ~env.getwd
    THEN [err |-> <<"failed", "to", "get", "current", "directory">>, cwd |-> dir]
    ELSE IF dir = "outside"
    THEN [err |-> ErrNotInGitRepo, cwd |-> dir]
    ELSE IF ~env.wt
    THEN [err |-> <<"failed", "to", "get", "worktree">>, cwd |-> dir]
    ELSE IF ~env.chdir
    THEN [err |-> <<"failed", "to", "change", "to", "git", "root", "directory">>,
          cwd |-> dir]
    ELSE [err |-> Nil, cwd |-> "root"]

\* ------------------------------------------------------------------------
\* WorktreeManager.CreateWorktree, step by step
\* ------------------------------------------------------------------------

\* dirname replacing the first separator only.
dirnameFirstOnly(b) ==
    LET slashes == {i \in 1..Len(b) : b[i] = "/"} IN
    [i \in 1..Len(b) |->
        IF i \in slashes /\ \A j \in slashes : i <= j THEN "_" ELSE b[i]]

\* dirname and worktreePath of CreateWorktree
dirname(b) == ReplaceAll(b, "/", "_")

worktreePath(b) == Join(<<".", ".">>, dirname(b))

\* pullWarns warning of every pull error.
pullWarnsAlways(err, v) == err # Nil

\* The paths CreateWorktree and the FileCopier build from the worktree path
\* of each branch: the path itself (main.go:104), the .envrc looked for
\* (main.go:142), the destination of node_modules (part_000:22) and of each
\* file (part_000:41).
PathsOf ==
    [b \in BranchNames |->
        [worktree |-> worktreePath(b),
         envrc |-> Join(worktreePath(b), <<".", "e", "n", "v", "r", "c">>),
         nodeModules |-> Join(worktreePath(b), NodeModules),
         file |-> [f \in {RepoFiles[i] : i \in 1..Len(RepoFiles)} |->
                      Join(worktreePath(b), f)]]]

\* The repository root and the place of its siblings, as absolute paths.
RootDir == <<"/", "p", "/", "r">>

\* The absolute path of the working directory of the process: the
\* repository root after initGitRepo, the new worktree after os.Chdir.
AbsDir(place, b) ==
    IF place = "worktree" THEN Clean(RootDir \o Slash \o worktreePath(b))
    ELSE RootDir

\* What a relative path names when the working directory is dir.
Resolve(dir, rel) == Clean(dir \o Slash \o rel)

\* The paths of the goroutine (part_000:22, 25, 118), resolved against the
\* working directory of the process: the directory MkdirAll makes and the
\* source and destination cp is given.
BgPaths ==
    [b \in BranchNames, place \in {"root", "worktree"} |->
        [mkdir |-> Resolve(AbsDir(place, b), Dir(Join(worktreePath(b), NodeModules))),
         src |-> Resolve(AbsDir(place, b), NodeModules),
         dest |-> Resolve(AbsDir(place, b), Join(worktreePath(b), NodeModules))]]

\* Lines 106-113: whether a pull error is printed as a warning.
pullWarns(err, v) ==
    /\ err # Nil
    /\ ~Contains(err, <<"no", "upstream">>)
    /\ v

VARIABLES
    pc,          \* where the main flow is
    cwd,         \* the process working directory
    cwd0,        \* the working directory the command was started in
    verbose,     \* Config.verbose
    branchname,  \* the argument of CreateWorktree
    head,        \* the commit HEAD resolves to, NoHash if it does not
    localRefs,   \* refs/heads/<name>
    remoteRefs,  \* refs/remotes/origin/<name>
    localRefs0,  \* refs/heads/<name> when the command started
    result,      \* the error CreateWorktree returned; Running before
    stdout,      \* the kinds of message printed so far
    worktreeAdded, \* `git worktree add` has made the worktree
    bg,          \* the background goroutine
    bgStarted,   \* how many goroutines were started
    bgIO,        \* the goroutine's file operations, with their paths resolved
    found,       \* copyUntrackedFiles: the files still to copy
    copied,      \* destination paths a copy has written
    direnv,      \* `direnv allow` was run
    obs,         \* the last operation: its inputs and what it returned
    trace        \* the calls CreateWorktree has made so far, in order

vars ==
    <<pc, cwd, cwd0, verbose, branchname, head, localRefs, remoteRefs, localRefs0,
      result, stdout, worktreeAdded, bg, bgStarted, bgIO, found, copied, direnv,
      obs, trace>>

Running == <<"running">>

Init ==
    /\ pc = "initGitRepo"
    /\ cwd \in {"outside", "subdir", "root"}
    /\ cwd0 = cwd
    /\ verbose \in BOOLEAN
    /\ branchname \in BranchNames
    /\ head \in Hashes \cup {NoHash}
    /\ localRefs \in [BranchNames -> Hashes \cup {NoHash}]
    /\ remoteRefs \in [BranchNames -> Hashes \cup {NoHash}]
    /\ \A b \in BranchNames \ {branchname} : remoteRefs[b] = NoHash
    /\ localRefs[CurrentBranch] = head
    /\ localRefs0 = localRefs
    /\ result = Running
    /\ stdout = {}
    /\ worktreeAdded = FALSE
    /\ bg = "none"
    /\ bgStarted = 0
    /\ bgIO = [mkdir |-> <<>>, cps |-> <<>>]
    /\ found = <<>>
    /\ copied = {}
    /\ direnv = FALSE
    /\ obs = [op |-> "start"]
    /\ trace = <<>>

\* main.go:97-101
InitGitRepo ==
    /\ pc = "initGitRepo"
    /\ \E env \in InitEnvs :
         LET r == initGitRepo(cwd, env) IN
         /\ cwd' = r.cwd
         /\ obs' = [op |-> "initGitRepo", env |-> env, err |-> r.err]
         /\ IF r.err # Nil
            THEN pc' = "returned" /\ result' = r.err
            ELSE pc' = "pull" /\ result' = result
    /\ trace' = Append(trace, "initGitRepo")
    /\ UNCHANGED <<cwd0, verbose, branchname, head, localRefs, remoteRefs, localRefs0,
                   stdout, worktreeAdded, bg, bgStarted, bgIO, found, copied, direnv>>

\* The SSH and HTTPS environments getAuth consults for this remote; one
\* fixed environment stands for those it does not consult.
SSHEnvsFor(remote) ==
    IF /\ remote.found
       /\ Len(remote.urls) > 0
       /\ (HasPrefix(remote.urls[1], <<"git@">>) \/ HasPrefix(remote.urls[1], <<"ssh://">>))
    THEN SSHEnvs
    ELSE {[agent |-> FALSE, home |-> FALSE, keys |-> NoKeys]}

HTTPSEnvsFor(remote) ==
    IF /\ remote.found
       /\ Len(remote.urls) > 0
       /\ HasPrefix(remote.urls[1], <<"https://github.com">>)
    THEN HTTPSEnvs
    ELSE {[gh |-> FALSE, credRun |-> FALSE, credOut |-> <<>>]}

\* The answers PullContext can give; one fixed answer stands for them
\* when pull returns before calling it.
PullResultsFor(wtOk, remote, sshEnv, httpsEnv) ==
    IF wtOk /\ getAuth(remote, sshEnv, httpsEnv).err = Nil
    THEN PullResults
    ELSE {Nil}

\* main.go:106-113
Pull ==
    /\ pc = "pull"
    /\ \E wtOk \in BOOLEAN, remote \in RemoteConfigs :
       \E sshEnv \in SSHEnvsFor(remote), httpsEnv \in HTTPSEnvsFor(remote) :
       \E raw \in PullResultsFor(wtOk, remote, sshEnv, httpsEnv) :
         LET p == pull(wtOk, remote, sshEnv, httpsEnv, raw) IN
         /\ obs' = [op |-> "pull", wtOk |-> wtOk, remote |-> remote,
                    authErr |-> getAuth(remote, sshEnv, httpsEnv).err,
                    err |-> p.err, attempted |-> p.attempted, auth |-> p.auth]
         /\ stdout' = IF pullWarns(p.err, verbose)
                      THEN stdout \cup {"warn: Unable to pull"}
                      ELSE stdout
    /\ pc' = "createWorktree"
    /\ trace' = Append(trace, "pull")
    /\ UNCHANGED <<cwd, cwd0, verbose, branchname, head, localRefs, remoteRefs, localRefs0,
                   result, worktreeAdded, bg, bgStarted, bgIO, found, copied, direnv>>

\* main.go:115-117
AddWorktree ==
    /\ pc = "createWorktree"
    /\ \E env \in CreateEnvs :
         LET c == createWorktree(localRefs, remoteRefs, head, branchname, env) IN
         /\ localRefs' = c.refs
         /\ worktreeAdded' = c.added
         /\ obs' = [op |-> "createWorktree", env |-> env, err |-> c.err,
                    ran |-> c.ran, path |-> PathsOf[branchname].worktree]
         /\ IF c.err # Nil
            THEN pc' = "returned" /\ result' = Wrap(ErrWorktreeCreationFailed, c.err)
            ELSE pc' = "copyNodeModulesAsync" /\ result' = result
    /\ trace' = Append(trace, "createWorktree")
    /\ UNCHANGED <<cwd, cwd0, verbose, branchname, head, remoteRefs, localRefs0,
                   stdout, bg, bgStarted, bgIO, found, copied, direnv>>

\* What os.Stat("node_modules") can answer.
StatAnswers == {"exists", "notExist", "otherError"}

\* copyNodeModulesAsync without the os.Stat check.
copyNodeModulesAsyncUnchecked(stat) == [spawn |-> TRUE, err |-> Nil]

\* part_000:16-31: whether a goroutine is started, and the error returned.
copyNodeModulesAsync(stat) ==
    IF stat = "notExist" THEN [spawn |-> FALSE, err |-> Nil]
    ELSE [spawn |-> TRUE, err |-> Nil]

\* main.go:121-123
CopyNodeModulesAsync ==
    /\ pc = "copyNodeModulesAsync"
    /\ \E stat \in StatAnswers :
         LET r == copyNodeModulesAsync(stat) IN
         /\ bg' = IF r.spawn THEN "spawned" ELSE bg
         /\ bgStarted' = IF r.spawn THEN bgStarted + 1 ELSE bgStarted
         /\ stdout' = IF r.err # Nil
                      THEN stdout \cup {"log: Error copying node_modules"}
                      ELSE stdout
         /\ obs' = [op |-> "copyNodeModulesAsync", stat |-> stat, err |-> r.err,
                    path |-> PathsOf[branchname].worktree]
    /\ pc' = "copyUntrackedFiles"
    /\ trace' = trace \o <<"copyNodeModulesAsync">>
                     \o (IF bg' # bg THEN <<"go">> ELSE <<>>)
    /\ UNCHANGED <<cwd, cwd0, verbose, branchname, head, localRefs, remoteRefs, localRefs0,
                   result, worktreeAdded, bgIO, found, copied, direnv>>

\* part_000:21-23: the goroutine is scheduled and announces itself
BgStart ==
    /\ bg = "spawned"
    /\ pc # "exited"
    /\ bg' = "running"
    /\ stdout' = stdout \cup {"warn: copying node_modules in the background"}
    /\ UNCHANGED <<pc, cwd, cwd0, verbose, branchname, head, localRefs, remoteRefs,
                   localRefs0, result, worktreeAdded, bgStarted, bgIO, found, copied,
                   direnv, obs, trace>>

\* part_000:25, 118-121: the goroutine makes the parent directory of the
\* destination; the relative path is resolved against the working directory
\* the process has at that moment
BgMkdir ==
    /\ bg = "running"
    /\ pc # "exited"
    /\ \E mkdirOk \in BOOLEAN :
         /\ bgIO' = [bgIO EXCEPT !.mkdir = BgPaths[branchname, cwd].mkdir]
         /\ bg' = IF mkdirOk THEN "copying" ELSE "failed"
         /\ stdout' = IF ~mkdirOk
                      THEN stdout \cup {"warn: Failed to copy node_modules"}
                      ELSE stdout
    /\ UNCHANGED <<pc, cwd, cwd0, verbose, branchname, head, localRefs, remoteRefs,
                   localRefs0, result, worktreeAdded, bgStarted, found, copied,
                   direnv, obs, trace>>

\* part_000:25-27, 129-137: the goroutine runs the next cp, which inherits
\* the working directory the process has at that moment; cp fails when its
\* source and destination are the same directory
BgCp ==
    /\ bg = "copying"
    /\ pc # "exited"
    /\ LET i == Len(bgIO.cps) + 1
           src == BgPaths[branchname, cwd].src
           dest == BgPaths[branchname, cwd].dest IN
       \E cpOk \in (IF src = dest THEN {FALSE} ELSE BOOLEAN) :
         /\ bgIO' = [bgIO EXCEPT !.cps = Append(@, [flags |-> copyStrategies[i],
                                                     src |-> src, dest |-> dest])]
         /\ bg' = IF cpOk THEN "done"
                  ELSE IF i = Len(copyStrategies) THEN "failed" ELSE "copying"
         /\ copied' = IF cpOk THEN copied \cup {PathsOf[branchname].nodeModules}
                      ELSE copied
         /\ stdout' = IF ~cpOk /\ i = Len(copyStrategies)
                      THEN stdout \cup {"warn: Failed to copy node_modules"}
                      ELSE stdout
    /\ UNCHANGED <<pc, cwd, cwd0, verbose, branchname, head, localRefs, remoteRefs,
                   localRefs0, result, worktreeAdded, bgStarted, found, direnv, obs, trace>>

\* part_000:34-35: the pattern and what findFiles returns for it, for every
\* answer of the environment
Discovery ==
    [cfg \in ConfigAnswers, hasFd \in BOOLEAN, toolOk \in BOOLEAN |->
        LET pattern == getUntrackedFilesPattern(cfg.err, cfg.out)
            f == findFiles(pattern, hasFd, toolOk) IN
        [pattern |-> pattern, files |-> f.files, err |-> f.err]]

\* main.go:125-127 and part_000:33-38: build the pattern, find the files
CopyUntrackedFiles ==
    /\ pc = "copyUntrackedFiles"
    /\ \E cfg \in ConfigAnswers, hasFd \in BOOLEAN, toolOk \in BOOLEAN :
         LET pattern == Discovery[cfg, hasFd, toolOk].pattern
             f == Discovery[cfg, hasFd, toolOk] IN
         /\ found' = f.files
         /\ stdout' = IF f.err # Nil
                      THEN stdout \cup {"warn: Error copying untracked files"}
                      ELSE stdout
         /\ pc' = IF f.files = <<>> THEN "setupDirenv" ELSE "copyFile"
         /\ obs' = [op |-> "findFiles", cfg |-> cfg, hasFd |-> hasFd,
                    path |-> PathsOf[branchname].worktree,
                    pattern |-> pattern, files |-> f.files, err |-> f.err]
    /\ trace' = Append(trace, "findFiles")
    /\ UNCHANGED <<cwd, cwd0, verbose, branchname, head, localRefs, remoteRefs, localRefs0,
                   result, worktreeAdded, bg, bgStarted, bgIO, copied, direnv>>

\* part_000:40-45: one iteration of the copy loop
CopyFile ==
    /\ pc = "copyFile"
    /\ found # <<>>
    /\ \E env \in CopyEnvs :
         LET file == Head(found)
             destPath == PathsOf[branchname].file[file]
             r == copyWithCOW(file, destPath, env) IN
         /\ copied' = IF r.err = Nil THEN copied \cup {destPath} ELSE copied
         /\ stdout' = IF r.err # Nil
                      THEN stdout \cup {"warn: Unable to copy file"}
                      ELSE stdout
         /\ obs' = [op |-> "copyWithCOW", caller |-> "copyUntrackedFiles",
                    src |-> file, dest |-> destPath, err |-> r.err,
                    mkdirOk |-> env.mkdir, mkdirErr |-> r.mkdirErr, ran |-> r.ran, exits |-> r.exits]
    /\ found' = Tail(found)
    /\ pc' = IF Tail(found) = <<>> THEN "setupDirenv" ELSE "copyFile"
    /\ trace' = Append(trace, "copyWithCOW")
    /\ UNCHANGED <<cwd, cwd0, verbose, branchname, head, localRefs, remoteRefs, localRefs0,
                   result, worktreeAdded, bg, bgStarted, bgIO, direnv>>

\* main.go:141-148: envrc: os.Stat finds .envrc in the worktree; runOk:
\* `direnv allow` exits with success.
setupDirenv(envrc, runOk) ==
    IF envrc
    THEN [ran |-> TRUE, err |-> IF runOk THEN Nil ELSE <<"exit", "status", "1">>]
    ELSE [ran |-> FALSE, err |-> Nil]

\* main.go:129-131
SetupDirenv ==
    /\ pc = "setupDirenv"
    /\ \E envrc \in BOOLEAN, runOk \in BOOLEAN :
         LET r == setupDirenv(envrc, runOk) IN
         /\ direnv' = r.ran
         /\ stdout' = IF r.err # Nil
                      THEN stdout \cup {"log: Error setting up direnv"}
                      ELSE stdout
         /\ obs' = [op |-> "setupDirenv", envrc |-> envrc, err |-> r.err,
                    path |-> PathsOf[branchname].worktree,
                    envrcPath |-> PathsOf[branchname].envrc]
    /\ pc' = "chdir"
    /\ trace' = Append(trace, "setupDirenv")
    /\ UNCHANGED <<cwd, cwd0, verbose, branchname, head, localRefs, remoteRefs, localRefs0,
                   result, worktreeAdded, bg, bgStarted, bgIO, found, copied>>

\* changeDir with the error of os.Chdir dropped.
changeDirUnchecked(chdirErr) == Nil

\* main.go:133-139: what CreateWorktree returns after os.Chdir, given the
\* error os.Chdir returned
changeDir(chdirErr) ==
    IF chdirErr # Nil
    THEN Wrap(<<"failed", "to", "change", "to", "worktree", "directory:">>, chdirErr)
    ELSE Nil

\* main.go:133-139
Chdir ==
    /\ pc = "chdir"
    /\ \E chdirErr \in {Nil, <<"no", "such", "file", "or", "directory">>} :
         /\ cwd' = IF chdirErr = Nil THEN "worktree" ELSE cwd
         /\ result' = changeDir(chdirErr)
         /\ stdout' = IF changeDir(chdirErr) = Nil
                      THEN stdout \cup {"created worktree"}
                      ELSE stdout
         /\ obs' = [op |-> "chdir", err |-> chdirErr,
                    path |-> PathsOf[branchname].worktree]
    /\ pc' = "returned"
    /\ trace' = Append(trace, "chdir")
    /\ UNCHANGED <<cwd0, verbose, branchname, head, localRefs, remoteRefs, localRefs0,
                   worktreeAdded, bg, bgStarted, bgIO, found, copied, direnv>>

\* main.go:60-63: die on an error, then the process ends and with it any
\* goroutine that has not finished
ExitCode == IF result = Nil THEN 0 ELSE 1

Exit ==
    /\ pc = "returned"
    /\ pc' = "exited"
    /\ stdout' = IF result # Nil THEN stdout \cup {"die"} ELSE stdout
    /\ bg' = IF bg \in {"spawned", "running", "copying"} THEN "killed" ELSE bg
    /\ obs' = [op |-> "exit", code |-> ExitCode]
    /\ UNCHANGED <<cwd, cwd0, verbose, branchname, head, localRefs, remoteRefs, localRefs0,
                   result, worktreeAdded, bgStarted, bgIO, found, copied, direnv, trace>>

Next ==
    \/ InitGitRepo
    \/ Pull
    \/ AddWorktree
    \/ CopyNodeModulesAsync
    \/ BgStart
    \/ BgMkdir
    \/ BgCp
    \/ CopyUntrackedFiles
    \/ CopyFile
    \/ SetupDirenv
    \/ Chdir
    \/ Exit

Spec == Init /\ [][Next]_vars

\* ------------------------------------------------------------------------
\* Properties
\* ------------------------------------------------------------------------

\* createWorktree has just returned.
AfterCreateWorktree == obs.op = "createWorktree"

\* The three cases of branch resolution, from the references the command
\* started with.
CaseLocal == localRefs0[branchname] # NoHash

CaseRemoteOnly == localRefs0[branchname] = NoHash /\ remoteRefs[branchname] # NoHash

CaseNeither == localRefs0[branchname] = NoHash /\ remoteRefs[branchname] = NoHash

\* C1 as stated: after createWorktree, (a) a local branch leaves every
\* local reference as it was, (b) a remote-only branch has become a local
\* reference at the remote reference's commit, (c) a branch that is nowhere
\* has become a local reference at the HEAD commit; nothing else changed.
C1_AsStated ==
    AfterCreateWorktree =>
        /\ CaseLocal => localRefs = localRefs0
        /\ CaseRemoteOnly =>
               localRefs = [localRefs0 EXCEPT ![branchname] = remoteRefs[branchname]]
        /\ CaseNeither =>
               /\ head # NoHash
               /\ localRefs = [localRefs0 EXCEPT ![branchname] = head]

\* C1 as amended: the three cases are decided in the order local, remote,
\* HEAD, and the local one wins when both exist; in (b) and (c) the
\* reference is created when the reference is read back (b), HEAD resolves
\* to a commit (c) and the reference write succeeds; otherwise
\* createWorktree returns an error without running `git worktree add` and
\* every local reference is as it was.
C1_BranchResolution ==
    AfterCreateWorktree =>
        /\ CaseLocal => localRefs = localRefs0
        /\ CaseRemoteOnly =>
               IF obs.env.refRead /\ obs.env.setRef
               THEN localRefs = [localRefs0 EXCEPT ![branchname] = remoteRefs[branchname]]
               ELSE localRefs = localRefs0 /\ obs.err # Nil /\ ~obs.ran
        /\ CaseNeither =>
               IF head # NoHash /\ obs.env.setRef
               THEN localRefs = [localRefs0 EXCEPT ![branchname] = head]
               ELSE localRefs = localRefs0 /\ obs.err # Nil /\ ~obs.ran

\* C1 witness: the branch exists locally and on the remote at different
\* commits, and createWorktree has attached the worktree to the local one.
C1_Witness ==
    /\ AfterCreateWorktree
    /\ obs.err = Nil
    /\ worktreeAdded
    /\ CaseLocal
    /\ remoteRefs[branchname] # NoHash
    /\ remoteRefs[branchname] # localRefs0[branchname]

\* CreateWorktree has returned to main.
Returned == pc = "returned"

\* The current directory is not inside a git repository.
NotInRepo == obs.op = "initGitRepo" /\ obs.env.getwd /\ cwd = "outside"

\* initGitRepo met one of the conditions it gives up on.
InitFails ==
    /\ obs.op = "initGitRepo"
    /\ (~obs.env.getwd \/ cwd = "outside" \/ ~obs.env.wt \/ ~obs.env.chdir)

\* createWorktree was called and did not make the worktree.
CreateFails == obs.op = "createWorktree" /\ ~worktreeAdded

\* os.Chdir into the new worktree failed.
ChdirFails == obs.op = "chdir" /\ obs.err # Nil

\* The steps whose failure is not fatal.
NonFatalOps == {"pull", "copyNodeModulesAsync", "findFiles", "copyWithCOW", "setupDirenv"}

\* C2 as stated: CreateWorktree returns an error exactly when the directory
\* is not inside a repository, worktree creation failed, or the change of
\* directory into the worktree failed.
C2_AsStated ==
    Returned => (result # Nil <=> (NotInRepo \/ CreateFails \/ ChdirFails))

\* C2 as amended: CreateWorktree returns an error exactly when initGitRepo
\* fails (the current directory cannot be read, is not inside a repository,
\* the main worktree is unavailable, or the change to the repository root
\* fails), worktree creation fails, or the change of directory into the
\* worktree fails; main then exits with code 1.  No other step, whatever it
\* returned, ends the sequence or sets the result; a run without a fatal
\* condition ends in the worktree with the success message printed.
C2_FatalOnly ==
    /\ Returned => (result # Nil <=> (InitFails \/ CreateFails \/ ChdirFails))
    /\ Returned /\ result = Nil => cwd = "worktree" /\ "created worktree" \in stdout
    /\ obs.op \in NonFatalOps => result = Running /\ pc \notin {"returned", "exited"}
    /\ pc = "exited" /\ result # Nil => obs.code = 1 /\ "die" \in stdout

\* C2 witness: CreateWorktree returned success although the pull, a file
\* copy, the background copy and direnv had all failed.
C2_Witness ==
    /\ Returned
    /\ result = Nil
    /\ cwd = "worktree"
    /\ {"warn: Unable to pull", "warn: Unable to copy file",
        "warn: Failed to copy node_modules", "log: Error setting up direnv"}
           \subseteq stdout

C4_AsStated ==
    Returned /\ localRefs # localRefs0 => worktreeAdded

\* pull returned the error CreateWorktree takes for a missing upstream.
NoUpstreamPull == obs.op = "pull" /\ Contains(obs.err, <<"no", "upstream">>)

\* The state right after a pull that succeeded: nothing printed, nothing
\* returned, the repository untouched, createWorktree next.
AsIfPulled ==
    /\ pc = "createWorktree"
    /\ result = Running
    /\ stdout = {}
    /\ cwd = "root"
    /\ localRefs = localRefs0
    /\ ~worktreeAdded /\ bg = "none" /\ bgStarted = 0
    /\ found = <<>> /\ copied = {} /\ ~direnv
    /\ trace = <<"initGitRepo", "pull">>

\* C5: a pull that fails for want of an upstream sets no result, prints no
\* warning when not verbose, and leaves the state a successful pull leaves.
C5_NoUpstreamSilent ==
    /\ NoUpstreamPull =>
           /\ result = Running
           /\ (~verbose => "warn: Unable to pull" \notin stdout)
           /\ AsIfPulled
    /\ obs.op = "pull" /\ obs.err = Nil => AsIfPulled

\* C5 witness: a pull has failed for want of an upstream, not verbose.
C5_Witness ==
    /\ NoUpstreamPull
    /\ obs.attempted
    /\ ~verbose

\* pull returned an error other than the one for a missing upstream.
OtherPullFailure ==
    /\ obs.op = "pull"
    /\ obs.err # Nil
    /\ ~Contains(obs.err, <<"no", "upstream">>)

\* C6 as stated: a pull failure other than a missing upstream is not fatal
\* and is printed as a warning, verbose or not.
C6_AsStated ==
    OtherPullFailure =>
        /\ result = Running
        /\ pc = "createWorktree"
        /\ "warn: Unable to pull" \in stdout

\* The URL of origin starts with neither an SSH prefix nor the GitHub HTTPS
\* prefix.
NeitherScheme ==
    /\ obs.remote.found
    /\ Len(obs.remote.urls) > 0
    /\ ~HasPrefix(obs.remote.urls[1], <<"git@">>)
    /\ ~HasPrefix(obs.remote.urls[1], <<"ssh://">>)
    /\ ~HasPrefix(obs.remote.urls[1], <<"https://github.com">>)

\* Every method of the scheme origin uses has failed.
AllMethodsFailed ==
    obs.authErr \in
        { <<"no", "SSH", "keys", "found", "or", "SSH", "agent", "not", "available">>,
          <<"no", "HTTPS", "authentication", "method", "found">> }

\* C7 as stated: when the URL of origin is of neither scheme, or every
\* method of its scheme failed, PullContext is still called, with no
\* credential.
C7_AsStated ==
    obs.op = "pull" /\ obs.wtOk /\ (NeitherScheme \/ AllMethodsFailed) =>
        obs.attempted /\ obs.auth = NoAuth

\* The positions of a call in the trace.
Calls(name) == {i \in 1..Len(trace) : trace[i] = name}

\* C8: at most one goroutine is ever started; copyNodeModulesAsync starts
\* exactly one when node_modules exists and none when it does not; it is
\* started after createWorktree made the worktree and before findFiles and
\* every file copy; whatever state the goroutine is in, the next step of the
\* main flow can be taken, and what CreateWorktree returns is decided by the
\* change of directory alone.
C8_OneBackgroundCopy ==
    /\ bgStarted <= 1
    /\ bgStarted = Cardinality(Calls("go"))
    /\ bgStarted = 0 <=> bg = "none"
    /\ obs.op = "copyNodeModulesAsync" =>
           /\ obs.stat = "exists" => bgStarted = 1 /\ bg # "none"
           /\ obs.stat = "notExist" => bgStarted = 0 /\ bg = "none"
           /\ obs.err = Nil
    /\ \A g \in Calls("go") :
           /\ worktreeAdded
           /\ \E c \in Calls("createWorktree") : c < g
           /\ \A f \in Calls("findFiles") \cup Calls("copyWithCOW") : g < f
    /\ pc = "copyUntrackedFiles" => ENABLED CopyUntrackedFiles
    /\ pc = "copyFile" => ENABLED CopyFile
    /\ pc = "setupDirenv" => ENABLED SetupDirenv
    /\ pc = "chdir" => ENABLED Chdir
    /\ Returned => ENABLED Exit
    /\ Returned /\ bgStarted = 1 => (result = Nil <=> obs.op = "chdir" /\ obs.err = Nil)

\* C8 witness: CreateWorktree has returned success and the one goroutine it
\* started has not run yet.
C8_Witness ==
    /\ Returned
    /\ result = Nil
    /\ "created worktree" \in stdout
    /\ bgStarted = 1
    /\ bg = "spawned"

\* C8, the other three states of the goroutine when CreateWorktree has
\* returned success.
C8_SuccessWhileRunning == Returned /\ result = Nil /\ bg = "running"

C8_SuccessAfterDone == Returned /\ result = Nil /\ bg = "done"

C8_SuccessAfterFailed == Returned /\ result = Nil /\ bg = "failed"

\* The flags of the cp commands in the order of preference: the two
\* copy-on-write dialects, then the plain recursive copy.
PreferenceOrder == << <<"-Rc">>, <<"-R", "--reflink">>, <<"-R">> >>

\* C9: copyWithCOW runs no cp when the parent directory of the destination
\* cannot be made, and returns that error; otherwise it runs the strategies
\* in the order of preference up to the first that exits with success and
\* returns nil then; it returns the copy error, which names source and
\* destination, exactly when all three were run and all failed.
C9_CopyFallback ==
    obs.op = "copyWithCOW" =>
        LET n == Len(obs.ran) IN
        /\ Len(obs.exits) = n
        /\ obs.ran = SubSeq(PreferenceOrder, 1, n)
        /\ ~obs.mkdirOk =>
               /\ n = 0
               /\ obs.err # Nil
               /\ ~HasPrefix(obs.err, <<"failed", "to", "copy">>)
        /\ obs.mkdirOk => n >= 1
        /\ \A i \in 1..(n - 1) : ~obs.exits[i]
        /\ obs.err = Nil <=> (n >= 1 /\ obs.exits[n])
        /\ obs.err # Nil /\ obs.mkdirOk =>
               /\ n = Len(PreferenceOrder)
               /\ \A i \in 1..n : ~obs.exits[i]
               /\ HasPrefix(obs.err, <<"failed", "to", "copy">>)
               /\ Contains(obs.err, obs.src)
               /\ Contains(obs.err, obs.dest)
        /\ obs.err = Nil => obs.dest \in copied

\* C9 witness: the first strategy failed and the second made the copy.
C9_Witness ==
    /\ obs.op = "copyWithCOW"
    /\ obs.ran = << <<"-Rc">>, <<"-R", "--reflink">> >>
    /\ obs.exits = <<FALSE, TRUE>>
    /\ obs.err = Nil

\* The configuration has no entry: git config failed, or printed nothing
\* but space.
ConfigAbsent == obs.cfg.err \/ TrimSpace(obs.cfg.out) = <<>>

\* The entries configured, one per line.
ConfigEntries == Split(TrimSpace(obs.cfg.out), "\n")

\* Some configured entry is not a regular expression.
ConfigMalformed ==
    /\ ~ConfigAbsent
    /\ \E k \in 1..Len(ConfigEntries) : ~Compiles(Anchored(ConfigEntries[k]))

\* The built-in default set, one pattern per name.
DefaultSet ==
    <<"\\", ".", "e", "n", "v", "|", "\\", ".", "e", "n", "v", "r", "c", "|", "\\", ".", "e", "n", "v", ".", "l", "o", "c", "a", "l", "|", "\\", ".", "m", "i", "s", "e", ".", "t", "o", "m", "l", "|", "\\", ".", "t", "o", "o", "l", "-", "v", "e", "r", "s", "i", "o", "n", "s", "|", "m", "i", "s", "e", ".", "t", "o", "m", "l">>

\* File names to try the pattern on.
SampleNames ==
    { <<".", "e", "n", "v">>, <<"x", "e", "n", "v">>, <<"n", "o", "n", "e">>,
      <<".", "e", "n", "v", "r", "c">>, <<"m", "i", "s", "e", ".", "t", "o", "m", "l">> }

\* C10 as stated: with the configuration absent or malformed the pattern is
\* the default set and discovery returns the files the default set selects,
\* without an error unless the tool itself failed; with valid entries the
\* pattern matches a name exactly when one of the entries does.
C10_AsStated ==
    obs.op = "findFiles" =>
        /\ ConfigAbsent \/ ConfigMalformed =>
               /\ obs.pattern = Anchored(DefaultSet)
               /\ obs.err = Nil => obs.files = << <<".", "e", "n", "v">> >>
               /\ obs.err # Nil => obs.err \in {<<"exit", "status", "1">>, <<"permission", "denied">>}
        /\ ~ConfigAbsent /\ ~ConfigMalformed =>
               \A name \in SampleNames :
                   MatchString(obs.pattern, name) <=>
                       \E k \in 1..Len(ConfigEntries) :
                           MatchString(Anchored(ConfigEntries[k]), name)

\* The sibling of the repository root named after branch b: "../" and then
\* b, character by character, with "_" for every "/".
SiblingOf(b) ==
    <<".", ".", "/">> \o [i \in 1..Len(b) |-> IF b[i] = "/" THEN "_" ELSE b[i]]

\* Branch names to try the path on.
NameSamples ==
    BranchNames \cup
    { <<"a", "_", "b">>, <<"a", ".", "b", "/", "c", "-", "d">>,
      <<"_", "/", "_">>, <<"a", "/", "b", "/", "c", "/", "d">> }

\* For each sample name, worktreePath is that sibling and dirname has the
\* length of the name and no separator.
SamplePaths ==
    \A b \in NameSamples :
        /\ worktreePath(b) = SiblingOf(b)
        /\ Len(dirname(b)) = Len(b)
        /\ \A i \in 1..Len(b) : dirname(b)[i] # "/"

\* C11: the path CreateWorktree hands to createWorktree, to
\* copyNodeModulesAsync, to copyUntrackedFiles, to setupDirenv and to
\* os.Chdir is the same value, "../" followed by the branch name with every
\* "/" replaced by "_" and nothing else changed; every copy destination,
\* the background one included, and the .envrc looked for lie below it; the
\* same holds of the path computed for each sample name.
C11_WorktreePath ==
    /\ obs.op \in {"createWorktree", "copyNodeModulesAsync", "findFiles",
                   "setupDirenv", "chdir"} =>
           obs.path = SiblingOf(branchname)
    /\ obs.op = "copyWithCOW" =>
           obs.dest = SiblingOf(branchname) \o <<"/">> \o obs.src
    /\ obs.op = "setupDirenv" =>
           obs.envrcPath = SiblingOf(branchname) \o <<"/", ".", "e", "n", "v", "r", "c">>
    /\ \A d \in copied : HasPrefix(d, SiblingOf(branchname) \o <<"/">>)
    /\ SamplePaths

\* C11 witness: the process has changed into the worktree of a branch whose
\* name has two separators, after a file and node_modules were copied there.
C11_Witness ==
    /\ obs.op = "chdir"
    /\ obs.err = Nil
    /\ branchname = <<"f", "/", "x", "/", "y">>
    /\ obs.path = <<".", ".", "/", "f", "_", "x", "_", "y">>
    /\ Cardinality(copied) = 2

\* <repository root>/node_modules and the new worktree, as absolute paths.
RootNodeModules == <<"/", "p", "/", "r", "/">> \o NodeModules

NewWorktree ==
    <<"/", "p", "/">> \o [i \in 1..Len(branchname) |->
                             IF branchname[i] = "/" THEN "_" ELSE branchname[i]]

\* C12 as stated: whenever the goroutine makes the directory or runs a cp,
\* whatever the main flow has done by then, the directory made is the new
\* worktree, the source is <repository root>/node_modules and the
\* destination is <new worktree>/node_modules.
C12_AsStated ==
    /\ bgIO.mkdir # <<>> => bgIO.mkdir = NewWorktree
    /\ \A i \in 1..Len(bgIO.cps) :
           /\ bgIO.cps[i].src = RootNodeModules
           /\ bgIO.cps[i].dest = NewWorktree \o Slash \o NodeModules

====
